---- MODULE Spec2Model ----
(***************************************************************************)
(* Model of backend-python/main.py: a FastAPI application served by one    *)
(* uvicorn process.  Every handler is an `async def` coroutine run by the  *)
(* single event loop; generate_image and save_generated_image make a       *)
(* synchronous outbound call from inside the coroutine.                    *)
(*                                                                         *)
(* Strings that the code only passes around are atoms ("p1", "u1", ...).   *)
(* Path strings are sequences of tokens in which "/" is the separator, so  *)
(* that pathlib's parsing, joining and printing are computed.  Money is in *)
(* hundredths of a dollar (0.04 is 4).  Message texts are ASCII tags.      *)
(***************************************************************************)
EXTENDS Integers, Sequences, FiniteSets, TLC

VARIABLES
    appState,    \* "loading" | "serving" | "crashed": the module's import
    credential,  \* value of os.getenv("OPENAI_API_KEY"): "unset" | "empty" | "set"
    pending,     \* accepted connections whose handler has not started yet
    running,     \* the handler that occupies the event loop inside an outbound call
    response,    \* the response of the request the loop handled last
    fs           \* the file system: [dirs, files]

vars == <<appState, credential, pending, running, response, fs>>

\* ------------------------------------------------------------------ bounds
MaxPending == 2

\* ------------------------------------------------------------- input sets
Prompts        == {"p1", "p2"}
Styles         == {"vivid", "natural"}
Sizes          == {"1024x1024", "1792x1024"}
Qualities      == {"standard", "hd", "low"}
ProviderUrls   == {"u1", "u2"}
RevisedPrompts == {"r1", "r2"}
ImageUrls      == {"u1", "u2"}
Contents       == {"b1", "b2"}
Credentials    == {"unset", "empty", "set"}

None == [endpoint |-> "none"]

\* --------------------------------------------------- Python exceptions
\* Base class of each exception class that can be raised in a handler.
Base(cls) ==
    CASE cls = "RateLimitError"      -> "APIStatusError"
      [] cls = "AuthenticationError" -> "APIStatusError"
      [] cls = "InternalServerError" -> "APIStatusError"
      [] cls = "APIStatusError"      -> "APIError"
      [] cls = "APIConnectionError"  -> "APIError"
      [] cls = "APIError"            -> "OpenAIError"
      [] cls = "OpenAIError"         -> "Exception"
      [] cls = "HTTPException"       -> "Exception"
      [] cls = "IndexError"          -> "Exception"
      [] cls = "NameError"           -> "Exception"
      [] cls = "HTTPError"           -> "Exception"
      [] cls = "ConnectionError"     -> "Exception"
      [] cls = "FileExistsError"     -> "OSError"
      [] cls = "FileNotFoundError"   -> "OSError"
      [] cls = "IsADirectoryError"   -> "OSError"
      [] cls = "OSError"             -> "Exception"
      [] cls = "Exception"           -> "BaseException"
      [] OTHER                       -> "object"

RECURSIVE IsInstance(_, _)
\* isinstance(e, handled) for an exception e of class cls.
IsInstance(cls, handled) ==
    IF cls = handled THEN TRUE
    ELSE IF cls \in {"BaseException", "object"} THEN FALSE
    ELSE IsInstance(Base(cls), handled)

\* ---------------------------------------------------- module namespace
\* Names bound at module level by the imports and assignments.
ModuleNames ==
    {"FastAPI", "HTTPException", "CORSMiddleware", "BaseModel", "Optional",
     "List", "random", "os", "load_dotenv", "openai", "OpenAI", "requests",
     "BytesIO", "Path", "client", "app"}

\* An exception that leaves a handler: an HTTPException becomes its status
\* and detail, anything else the server's 500.
Unhandled(endpoint, cls) ==
    [endpoint |-> endpoint, status |-> 500, raised |-> cls,
     body |-> [detail |-> <<"Internal Server Error">>]]

\* ------------------------------------------------------------ file system
Cwd       == <<"srv">>
SaveDir   == <<"generated_images">>
SaveDirLoc == Cwd \o SaveDir

InitialFs ==
    LET base == {<<>>, <<"srv">>, <<"etc">>} IN
    { [dirs |-> base, files |-> <<>>],
      [dirs |-> base \cup {SaveDirLoc}, files |-> <<>>],
      [dirs |-> base \cup {SaveDirLoc},
       files |-> (SaveDirLoc \o <<"a.png">>) :> "b0"],
      [dirs |-> base, files |-> SaveDirLoc :> "b0"] }

\* ------------------------------------------------------------------- Init
Init ==
    /\ appState = "loading"
    /\ credential \in Credentials
    /\ pending = 0
    /\ running = None
    /\ response = None
    /\ fs \in InitialFs

\* Import of the module: load_dotenv(), OpenAI(api_key=os.getenv(...)),
\* FastAPI().  The client constructor may refuse an absent key.
load_module ==
    /\ appState = "loading"
    /\ \/ appState' = "serving"
       \/ credential = "unset" /\ appState' = "crashed"
    /\ UNCHANGED <<credential, pending, running, response, fs>>

\* A client connects; the connection waits until the loop runs its handler.
accept ==
    /\ appState = "serving"
    /\ pending < MaxPending
    /\ pending' = pending + 1
    /\ UNCHANGED <<appState, credential, running, response, fs>>

\* The event loop takes a waiting request: only when no coroutine holds it.
Dispatch ==
    /\ appState = "serving"
    /\ running = None
    /\ pending > 0
    /\ pending' = pending - 1

\* GET /
root ==
    /\ Dispatch
    /\ response' = [endpoint |-> "root", status |-> 200, raised |-> "none",
                    body |-> [message |-> "Canva Clone AI Backend",
                              version |-> "2.0",
                              features |-> <<"AI Text Generation", "Analytics",
                                             "Image Generation">>]]
    /\ UNCHANGED <<appState, credential, running, fs>>

\* GET /api/data/trending
get_trending ==
    /\ Dispatch
    /\ response' = [endpoint |-> "trending", status |-> 200, raised |-> "none",
                    body |-> [trending_topics |->
                                 <<"summer", "limited", "new_menu", "event", "sale">>,
                              timestamp |-> "2025-10-27T12:00:00Z"]]
    /\ UNCHANGED <<appState, credential, running, fs>>

\* GET /health
health_check ==
    /\ Dispatch
    /\ response' =
         IF "datetime" \in ModuleNames
         THEN [endpoint |-> "health", status |-> 200, raised |-> "none",
               body |-> [status |-> "healthy", timestamp |-> "now",
                         service |-> "artify-python-backend"]]
         ELSE Unhandled("health", "NameError")
    /\ UNCHANGED <<appState, credential, running, fs>>

\* POST /api/ai/generate-text.  The hashtags and the score of a copy are
\* random.sample / random.randint draws and are left out of the body.
TemplateKeys == {"promotion", "announcement", "engagement"}
Purposes     == TemplateKeys \cup {"other"}

generate_text ==
    /\ Dispatch
    /\ \E purpose \in Purposes :
         LET key == IF purpose \in TemplateKeys THEN purpose ELSE "promotion"
         IN response' =
              [endpoint |-> "generate_text", status |-> 200, raised |-> "none",
               body |-> [copies |-> [i \in 1..3 |-> <<key, i>>],
                         metadata |-> [brand |-> "brand", product |-> "product",
                                       platform |-> "instagram"]]]
    /\ UNCHANGED <<appState, credential, running, fs>>

\* POST /api/analytics/predict.  base_engagement in tenths of a percent; the
\* reach and like estimates are random.uniform draws and are left out.
predict_performance ==
    /\ Dispatch
    /\ \E has_image \in BOOLEAN, hashtags \in {0, 3}, text \in {50, 51} :
         LET base_engagement == 35 + (IF has_image THEN 12 ELSE 0)
                                   + (IF hashtags >= 3 THEN 8 ELSE 0)
                                   + (IF text > 50 THEN 5 ELSE 0)
         IN response' =
              [endpoint |-> "predict", status |-> 200, raised |-> "none",
               body |-> [engagement_rate |-> base_engagement]]
    /\ UNCHANGED <<appState, credential, running, fs>>

\* ------------------------------------------------- generate_image
AIImageRequest ==
    [prompt : Prompts, style : Styles, size : Sizes, quality : Qualities]

\* A key check that tests `os.getenv("OPENAI_API_KEY") is None`.
KeyMissingWhenUnset(key) == key = "unset"

\* `not os.getenv("OPENAI_API_KEY")`: an unset and an empty value are falsy.
KeyMissing(key) == key \in {"unset", "empty"}

\* A cost looked up by image size.
CostBySize(request) == IF request.size = "1024x1024" THEN 4 ELSE 8

\* meta.cost of a successful result, in hundredths of a dollar.
Cost(request) == IF request.quality = "standard" THEN 4 ELSE 8

\* What client.images.generate can do: return one entry, return no entry
\* (response.data[0] then raises), or raise.
ProviderOutcomes ==
    [kind : {"ok"}, url : ProviderUrls, revised_prompt : RevisedPrompts]
    \cup {[kind |-> "empty"]}
    \cup [kind : {"raise"},
          cls : {"InternalServerError", "RateLimitError",
                 "AuthenticationError", "APIConnectionError"}]

\* The except clauses of generate_image, in source order.
GenerateImageClauses ==
    << [cls |-> "APIError",            status |-> 500,
        detail |-> "openai_api_error",        with_text |-> TRUE],
       [cls |-> "RateLimitError",      status |-> 429,
        detail |-> "rate_limit_retry_later",  with_text |-> FALSE],
       [cls |-> "AuthenticationError", status |-> 401,
        detail |-> "invalid_api_key",         with_text |-> FALSE],
       [cls |-> "Exception",           status |-> 500,
        detail |-> "generation_failed",       with_text |-> TRUE] >>

\* Python runs the first clause whose class the exception is an instance of.
FirstClause(clauses, cls) ==
    LET matching == {i \in 1..Len(clauses) : IsInstance(cls, clauses[i].cls)}
    IN  clauses[CHOOSE i \in matching : \A j \in matching : i <= j]

\* The HTTPException raised by the clause that catches an exception of
\* class cls whose str() is text.
GenerateImageError(request, calls, cls, text) ==
    LET c == FirstClause(GenerateImageClauses, cls)
    IN [endpoint |-> "generate_image", request |-> request, calls |-> calls,
        raised |-> cls, status |-> c.status,
        body |-> [detail |-> IF c.with_text THEN <<c.detail, text>>
                             ELSE <<c.detail>>]]

GenerateImageResult(request, calls, outcome) ==
    [endpoint |-> "generate_image", request |-> request, calls |-> calls,
     raised |-> "none", status |-> 200,
     body |-> [success |-> TRUE,
               image_url |-> outcome.url,
               prompt |-> request.prompt,
               revised_prompt |-> outcome.revised_prompt,
               style |-> request.style,
               size |-> request.size,
               quality |-> request.quality,
               meta |-> [model |-> "dall-e-3",
                         cost |-> Cost(request),
                         currency |-> "USD"]]]

\* The arguments of client.images.generate(...).
ImagesGenerate(request) ==
    [model |-> "dall-e-3", prompt |-> request.prompt, size |-> request.size,
     quality |-> request.quality, style |-> request.style, n |-> 1]

\* The handler up to the key check, when the key is missing: the
\* HTTPException(500) raised inside the try is caught by a clause.
generate_image_nokey ==
    /\ Dispatch
    /\ KeyMissing(credential)
    /\ \E request \in AIImageRequest :
         response' = GenerateImageError(request, 0, "HTTPException",
                                        "500: key_not_set")
    /\ UNCHANGED <<appState, credential, running, fs>>

\* The handler up to client.images.generate(...), a synchronous call: the
\* coroutine does not yield while it waits.
generate_image_call ==
    /\ Dispatch
    /\ ~KeyMissing(credential)
    /\ \E request \in AIImageRequest :
         running' = [endpoint |-> "generate_image", request |-> request,
                     calls |-> 1, call |-> ImagesGenerate(request)]
    /\ response' = None
    /\ UNCHANGED <<appState, credential, fs>>

\* The rest of the try block and the except clauses, once the call is over.
GenerateImageResponse(request, calls, outcome) ==
    CASE outcome.kind = "ok" ->
           GenerateImageResult(request, calls, outcome)
      [] outcome.kind = "empty" ->
           GenerateImageError(request, calls, "IndexError",
                              "list index out of range")
      [] outcome.kind = "raise" ->
           GenerateImageError(request, calls, outcome.cls, outcome.cls)

\* A handler that repeats the call once after a rate-limit error.
generate_image_return_retrying(outcome) ==
    /\ running.endpoint = "generate_image"
    /\ IF outcome.kind = "raise" /\ outcome.cls = "RateLimitError"
          /\ running.calls < 2
       THEN /\ running' = [running EXCEPT !.calls = @ + 1]
            /\ UNCHANGED response
       ELSE /\ response' = GenerateImageResponse(running.request,
                                                 running.calls, outcome)
            /\ running' = None
    /\ UNCHANGED <<appState, credential, pending, fs>>

\* client.images.generate returns or raises; the handler runs to its end.
generate_image_return(outcome) ==
    /\ running.endpoint = "generate_image"
    /\ response' = GenerateImageResponse(running.request, running.calls, outcome)
    /\ running' = None
    /\ UNCHANGED <<appState, credential, pending, fs>>

\* ------------------------------------------------------------- pathlib
\* A filename is the token sequence of its text: "../x" is <<"..","/","x">>.
Filenames ==
    { <<"a.png">>,
      <<"b.jpg">>,
      <<".", "/", "a.png">>,
      <<"..", "/", "x">>,
      <<"/", "etc", "/", "x">>,
      <<"sub", "/", "a.png">>,
      <<>> }

IsPart(token) == token \notin {"/", "."}

\* Path(text): the anchor and the parts; separators and "." are dropped,
\* ".." is kept.
Path(text) ==
    [anchor |-> IF Len(text) > 0 /\ text[1] = "/" THEN "/" ELSE "",
     parts  |-> SelectSeq(text, IsPart)]

\* A join that keeps only the last part of the name.
PathJoinBasename(dir, name) ==
    LET parts == Path(name).parts IN
    [anchor |-> dir.anchor,
     parts  |-> dir.parts \o (IF parts = <<>> THEN parts
                              ELSE <<parts[Len(parts)]>>)]

\* Path.__truediv__: an absolute right operand replaces the left one.
PathJoin(dir, name) ==
    IF Path(name).anchor = "/" THEN Path(name)
    ELSE [anchor |-> dir.anchor, parts |-> dir.parts \o Path(name).parts]

RECURSIVE Interleave(_)
Interleave(parts) ==
    IF Len(parts) <= 1 THEN parts
    ELSE <<Head(parts), "/">> \o Interleave(Tail(parts))

\* str(path)
PathStr(path) ==
    IF path.anchor = "/" THEN <<"/">> \o Interleave(path.parts)
    ELSE IF path.parts = <<>> THEN <<".">>
    ELSE Interleave(path.parts)

\* ------------------------------------------------- the operating system
IsDir(f, loc)  == loc \in f.dirs
IsFile(f, loc) == loc \in DOMAIN f.files

RECURSIVE Walk(_, _, _)
\* Path resolution from directory loc: every component is looked up in a
\* directory that exists.  The last component itself need not exist.
Walk(f, loc, parts) ==
    IF parts = <<>> THEN [ok |-> TRUE, loc |-> loc]
    ELSE IF IsFile(f, loc) THEN [ok |-> FALSE, err |-> "NotADirectoryError"]
    ELSE IF ~IsDir(f, loc) THEN [ok |-> FALSE, err |-> "FileNotFoundError"]
    ELSE IF Head(parts) = ".."
         THEN Walk(f, IF loc = <<>> THEN loc ELSE SubSeq(loc, 1, Len(loc) - 1),
                   Tail(parts))
         ELSE Walk(f, Append(loc, Head(parts)), Tail(parts))

Locate(f, path) == Walk(f, IF path.anchor = "/" THEN <<>> ELSE Cwd, path.parts)

\* Path.mkdir(exist_ok=True)
Mkdir(f, path) ==
    LET w == Locate(f, path) IN
    IF ~w.ok THEN [ok |-> FALSE, err |-> w.err, fs |-> f]
    ELSE IF IsDir(f, w.loc) THEN [ok |-> TRUE, fs |-> f]
    ELSE IF IsFile(f, w.loc) THEN [ok |-> FALSE, err |-> "FileExistsError", fs |-> f]
    ELSE [ok |-> TRUE, fs |-> [f EXCEPT !.dirs = @ \cup {w.loc}]]

\* A write that leaves an existing file as it is (mode 'xb' semantics
\* without the error).
WriteBytesKeepExisting(files, loc, content) ==
    [l \in DOMAIN files \cup {loc} |->
        IF l \in DOMAIN files THEN files[l] ELSE content]

\* f.write(content) on a file opened with mode 'wb': the file holds content.
WriteBytes(files, loc, content) ==
    [l \in DOMAIN files \cup {loc} |-> IF l = loc THEN content ELSE files[l]]

\* open(path, 'wb') followed by write(content) and close.
OpenAndWrite(f, path, content) ==
    LET w == Locate(f, path) IN
    IF ~w.ok THEN [ok |-> FALSE, err |-> w.err, fs |-> f]
    ELSE IF IsDir(f, w.loc) THEN [ok |-> FALSE, err |-> "IsADirectoryError", fs |-> f]
    ELSE [ok |-> TRUE,
          fs |-> [f EXCEPT !.files = WriteBytes(@, w.loc, content)]]

\* ------------------------------------------- save_generated_image
SaveImageRequest == [image_url : ImageUrls, filename : Filenames]

\* What requests.get can do: raise, or return a response whose redirects
\* have been followed.
FetchStatuses == {200, 304, 404, 503}
FetchOutcomes ==
    {[kind |-> "throw", cls |-> "ConnectionError"]}
    \cup [kind : {"response"}, status_code : FetchStatuses, content : Contents]

\* A status check that raises for 5xx only.
RaisesForServerError(status_code) == 500 <= status_code /\ status_code < 600

\* Response.raise_for_status raises HTTPError for 4xx and 5xx.
RaisesForStatus(status_code) == 400 <= status_code /\ status_code < 600

SaveImageError(request, outcome, cls) ==
    [endpoint |-> "save_generated_image", request |-> request, calls |-> 1,
     fetch |-> outcome, raised |-> cls, status |-> 500,
     body |-> [detail |-> <<"save_failed", cls>>]]

\* The body of the try block after requests.get: the response of the
\* request and the file system it leaves.
SaveImage(f, request, outcome) ==
    IF outcome.kind = "throw"
    THEN [fs |-> f, response |-> SaveImageError(request, outcome, outcome.cls)]
    ELSE IF RaisesForStatus(outcome.status_code)
    THEN [fs |-> f, response |-> SaveImageError(request, outcome, "HTTPError")]
    ELSE
      LET save_dir  == Path(SaveDir)
          made      == Mkdir(f, save_dir)
          save_path == PathJoin(save_dir, request.filename)
          written   == OpenAndWrite(made.fs, save_path, outcome.content)
      IN IF ~made.ok
         THEN [fs |-> made.fs, response |-> SaveImageError(request, outcome, made.err)]
         ELSE IF ~written.ok
         THEN [fs |-> written.fs,
               response |-> SaveImageError(request, outcome, written.err)]
         ELSE [fs |-> written.fs,
               response |->
                 [endpoint |-> "save_generated_image", request |-> request,
                  calls |-> 1, fetch |-> outcome, raised |-> "none",
                  status |-> 200,
                  body |-> [success |-> TRUE,
                            saved_path |-> PathStr(save_path),
                            filename |-> request.filename]]]

\* The handler up to requests.get(image_url), a synchronous call.
save_generated_image_call ==
    /\ Dispatch
    /\ \E request \in SaveImageRequest :
         running' = [endpoint |-> "save_generated_image", request |-> request,
                     calls |-> 1]
    /\ response' = None
    /\ UNCHANGED <<appState, credential, fs>>

\* requests.get returns or raises; the handler runs to its end.
save_generated_image_return(outcome) ==
    /\ running.endpoint = "save_generated_image"
    /\ LET r == SaveImage(fs, running.request, outcome)
       IN /\ fs' = r.fs
          /\ response' = r.response
    /\ running' = None
    /\ UNCHANGED <<appState, credential, pending>>

Next ==
    \/ load_module
    \/ accept
    \/ root
    \/ generate_text
    \/ get_trending
    \/ predict_performance
    \/ generate_image_nokey
    \/ generate_image_call
    \/ \E outcome \in ProviderOutcomes : generate_image_return(outcome)
    \/ health_check
    \/ save_generated_image_call
    \/ \E outcome \in FetchOutcomes : save_generated_image_return(outcome)

Spec == Init /\ [][Next]_vars

\* ------------------------------------------------------------ properties
IsGenerateImage(r) == r.endpoint = "generate_image"
IsSaveImage(r)     == r.endpoint = "save_generated_image"

\* C1: a generate-image request whose provider call raised a rate-limit
\* error is answered with status 429 and the retry-later message.
C1_RateLimitIs429 ==
    (IsGenerateImage(response) /\ response.raised = "RateLimitError")
        => /\ response.status = 429
           /\ response.body.detail = <<"rate_limit_retry_later">>

\* C2: a generate-image request whose provider call raised an
\* authentication error is answered with status 401 and the invalid-key
\* message.
C2_AuthFailureIs401 ==
    (IsGenerateImage(response) /\ response.raised = "AuthenticationError")
        => /\ response.status = 401
           /\ response.body.detail = <<"invalid_api_key">>

\* C3: with no credential configured (unset or empty), no generate-image
\* handler is ever inside a provider call, and every generate-image
\* response has status 500 and was produced without a provider call.
C3_MissingKeyIs500WithoutCall ==
    credential \in {"unset", "empty"}
        => /\ ~IsGenerateImage(running)
           /\ IsGenerateImage(response)
                => /\ response.status = 500
                   /\ response.calls = 0
                   /\ response.raised = "HTTPException"

C3_Witness ==
    /\ credential = "empty"
    /\ IsGenerateImage(response)
    /\ response.status = 500
    /\ response.calls = 0

\* C4: while a generate-image or save-image handler waits in its outbound
\* call and another request is waiting, the handler of that request (GET
\* /api/data/trending) can run.
C4_SlowCallDoesNotBlock ==
    (running.endpoint \in {"generate_image", "save_generated_image"}
       /\ pending > 0)
        => ENABLED get_trending

\* C5: every GET /health response has status 200 and a body with exactly
\* the fields status, timestamp and service.
C5_HealthSucceeds ==
    response.endpoint = "health"
        => /\ response.status = 200
           /\ DOMAIN response.body = {"status", "timestamp", "service"}
           /\ response.body.status = "healthy"
           /\ response.body.service = "artify-python-backend"

\* C6: with a credential configured, a generate-image handler makes one
\* provider call, for one image, and every generate-image response, success
\* or error, was produced after exactly one call.
C6_ProviderCalledOnce ==
    /\ IsGenerateImage(running)
         => /\ running.calls = 1
            /\ running.call.n = 1
    /\ (IsGenerateImage(response) /\ credential = "set")
         => response.calls = 1

C6_Witness ==
    /\ credential = "set"
    /\ IsGenerateImage(response)
    /\ response.raised = "RateLimitError"
    /\ response.calls = 1

\* C7 as stated: cost (0.04 for standard, 0.08 for hd) and currency are
\* fields of the result alongside success, image_url and revised_prompt.
C7_CostIsTopLevelField ==
    (IsGenerateImage(response) /\ response.status = 200)
        => /\ {"success", "image_url", "revised_prompt", "cost"}
                 \subseteq DOMAIN response.body
           /\ response.body.cost
                 = (IF response.request.quality = "standard" THEN 4 ELSE 8)

\* C7 amended: in every successful generate-image response the cost is the
\* field meta.cost, 0.04 for quality standard and 0.08 for hd (and for any
\* other quality), whatever the prompt, style, size and provider result
\* are; meta.currency is USD; the body itself has no cost field.
C7_CostInMetaByQuality ==
    (IsGenerateImage(response) /\ response.status = 200)
        => /\ response.request.quality = "standard" => response.body.meta.cost = 4
           /\ response.request.quality = "hd" => response.body.meta.cost = 8
           /\ response.request.quality # "standard" => response.body.meta.cost = 8
           /\ response.body.meta.currency = "USD"
           /\ "cost" \notin DOMAIN response.body
           /\ {"success", "image_url", "revised_prompt", "meta"}
                 \subseteq DOMAIN response.body

C7_Witness ==
    /\ IsGenerateImage(response)
    /\ response.status = 200
    /\ response.request.quality = "hd"
    /\ response.request.size = "1024x1024"
    /\ response.body.meta.cost = 8

\* The step in which a save-image handler ends.
SaveImageEnds == IsSaveImage(running) /\ running' = None

\* C8 as stated: a save-image request whose download returned a non-2xx
\* status or raised ends with status 500 and leaves every file as it was.
C8_Non2xxSavesNothing ==
    [][ (SaveImageEnds
          /\ (\/ response'.fetch.kind = "throw"
              \/ response'.fetch.status_code \notin 200..299))
        => (response'.status = 500 /\ fs'.files = fs.files) ]_vars

\* C8 amended: a save-image request whose download returned a 4xx or 5xx
\* status or raised ends with status 500 and leaves the file system as it
\* was (no directory and no file created).
C8_ErrorStatusSavesNothing ==
    [][ (SaveImageEnds
          /\ (\/ response'.fetch.kind = "throw"
              \/ response'.fetch.status_code \in 400..599))
        => (response'.status = 500 /\ fs' = fs) ]_vars

C8_Witness ==
    /\ IsSaveImage(response)
    /\ response.fetch.kind = "response"
    /\ response.fetch.status_code = 404
    /\ response.status = 500
    /\ response.raised = "HTTPError"

\* A filename that is one plain name.
Benign(filename) ==
    Len(filename) = 1 /\ filename[1] \notin {"/", ".", ".."}

\* C9: a successful save-image response for a benign filename has
\* success=true, the request's filename, and saved_path
\* "generated_images/<filename>"; the directory exists and the file there
\* holds exactly the fetched bytes.
C9_SaveWritesFetchedBytes ==
    (IsSaveImage(response) /\ response.status = 200
       /\ Benign(response.request.filename))
        => LET name == response.request.filename[1]
               loc  == <<"srv", "generated_images", name>>
           IN /\ response.body.success = TRUE
              /\ response.body.filename = <<name>>
              /\ response.body.saved_path = <<"generated_images", "/", name>>
              /\ <<"srv", "generated_images">> \in fs.dirs
              /\ loc \in DOMAIN fs.files
              /\ fs.files[loc] = response.fetch.content

C9_Witness ==
    /\ IsSaveImage(response)
    /\ response.status = 200
    /\ response.request.filename = <<"a.png">>
    /\ fs.files[<<"srv", "generated_images", "a.png">>] = "b2"

\* The download of a save-image response returned without an error status.
Downloaded(r) ==
    /\ IsSaveImage(r)
    /\ r.fetch.kind = "response"
    /\ r.fetch.status_code \notin 400..599

\* C10: a downloaded image is written under the filename as given: the
\* response echoes the filename unchanged, "../x" is written to x in the
\* parent of generated_images, and "/etc/x" to /etc/x (unless
\* generated_images cannot be made a directory).
C10_FilenameUsedVerbatim ==
    /\ (IsSaveImage(response) /\ response.status = 200)
         => response.body.filename = response.request.filename
    /\ (Downloaded(response) /\ response.raised # "FileExistsError"
          /\ response.request.filename = <<"..", "/", "x">>)
         => /\ response.status = 200
            /\ response.body.saved_path = <<"generated_images", "/", "..", "/", "x">>
            /\ <<"srv", "x">> \in DOMAIN fs.files
            /\ fs.files[<<"srv", "x">>] = response.fetch.content
    /\ (Downloaded(response) /\ response.raised # "FileExistsError"
          /\ response.request.filename = <<"/", "etc", "/", "x">>)
         => /\ response.status = 200
            /\ response.body.saved_path = <<"/", "etc", "/", "x">>
            /\ <<"etc", "x">> \in DOMAIN fs.files
            /\ fs.files[<<"etc", "x">>] = response.fetch.content

C10_Witness ==
    /\ IsSaveImage(response)
    /\ response.status = 200
    /\ response.request.filename = <<"..", "/", "x">>
    /\ <<"srv", "x">> \in DOMAIN fs.files
    /\ <<"srv", "generated_images", "x">> \notin DOMAIN fs.files
====
